---- MODULE Spec2Model ----
(***************************************************************************)
(* The three Eliza memory components (memory, search, store) as one state  *)
(* machine.  A behaviour follows ONE component object from construction    *)
(* through any sequence of invocations of its output methods.  The         *)
(* external memory engine is not part of the repository: every call on it  *)
(* either raises or returns a value, chosen nondeterministically per       *)
(* invocation.  `calls` records the external calls made (attempted) by the *)
(* last invocation, in order.  For a store node, `invocations` and         *)
(* `store_calls` count the output methods invoked and the store calls the  *)
(* engine received since construction, up to MaxInvocations invocations.   *)
(***************************************************************************)
EXTENDS Integers, Sequences, FiniteSets, TLC

VARIABLES
    node,                \* which component class the object is
    inputs,              \* the input fields set by the framework
    engine_attrs,        \* optional attributes the memory instance has (hasattr)
    status,              \* self.status (memory and search components)
    _search_results,     \* search component
    _analytics,          \* search component
    _stored_memory,      \* store component
    _memory_id,          \* store component
    _storage_status,     \* store component
    _memory_instance,    \* memory component
    _memory_context,     \* memory component
    _stored_message,     \* memory component
    _relevant_memories,  \* memory component
    op,                  \* the output method invoked last ("__init__" at first)
    result,              \* what that method returned
    calls,               \* the external calls it made, in order
    response,            \* how the engine answered during it
    invocations,         \* store component: output methods invoked so far
    store_calls          \* store component: store calls the engine got so far

vars == <<node, inputs, engine_attrs, status, _search_results, _analytics,
          _stored_memory, _memory_id, _storage_status, _memory_instance,
          _memory_context, _stored_message, _relevant_memories,
          op, result, calls, response, invocations, store_calls>>

searchVars == <<status, _search_results, _analytics>>
storeVars  == <<_stored_memory, _memory_id, _storage_status>>
memoryVars == <<_memory_instance, _memory_context, _stored_message, _relevant_memories>>
countVars  == <<invocations, store_calls>>

\* a flow execution invokes at most this many output methods of a store node
MaxInvocations == 3

----------------------------------------------------------------------------
(* Bounds *)

\* longest sequence a memory engine returns from one search / holds in its store
MaxResults == 2

----------------------------------------------------------------------------
(* Python values *)

\* None, where a string is expected, and where an object is expected
None == "None"
NoneObj == [none |-> TRUE]
EmptyDict == [k \in {} |-> ""]
Data(d) == [data |-> d]
Message(t) == [text |-> t]

\* dict.get(key, default)
Get(d, k, default) == IF k \in DOMAIN d THEN d[k] ELSE default
\* d[key] = value
SetItem(d, k, v) == (k :> v) @@ d

Digit == <<"0", "1", "2", "3", "4", "5", "6", "7", "8", "9">>

\* str(n) of a non-negative integer
RECURSIVE Str(_)
Str(n) == IF n < 10 THEN Digit[n + 1] ELSE Str(n \div 10) \o Digit[(n % 10) + 1]

\* an exception raised by the engine, and str(e)
Raise(msg) == [kind |-> "raise", msg |-> msg]
Return(v)  == [kind |-> "return", value |-> v]
Raises(r)  == r.kind = "raise"
EngineErrors == {"engine failure"}

\* an external call as the engine sees it
Call(method, args, kwargs) == [method |-> method, args |-> args, kwargs |-> kwargs]

----------------------------------------------------------------------------
(* Comma-separated lists: [t.strip() for t in s.split(",") if t.strip()]   *)
(* Strings that are parsed are sequences of one-character strings.          *)

\* the characters str.strip() removes
Whitespace == {" ", "\t", "\n", "\r", "\f"}

IsSpace(c) == c \in Whitespace

RECURSIVE LStrip(_)
LStrip(s) == IF s # <<>> /\ IsSpace(Head(s)) THEN LStrip(Tail(s)) ELSE s

RECURSIVE RStrip(_)
RStrip(s) == IF s # <<>> /\ IsSpace(s[Len(s)])
             THEN RStrip(SubSeq(s, 1, Len(s) - 1)) ELSE s

\* str.strip()
Strip(s) == RStrip(LStrip(s))

\* str.split(sep): the segments between separators, empty ones included
RECURSIVE SplitFrom(_, _, _)
SplitFrom(s, sep, cur) ==
    IF s = <<>> THEN <<cur>>
    ELSE IF Head(s) = sep THEN <<cur>> \o SplitFrom(Tail(s), sep, <<>>)
    ELSE SplitFrom(Tail(s), sep, Append(cur, Head(s)))

Split(s, sep) == SplitFrom(s, sep, <<>>)

\* mutant: the comprehension keeps t rather than t.strip()
RECURSIVE StripKeep_unstripped(_)
StripKeep_unstripped(segs) ==
    IF segs = <<>> THEN <<>>
    ELSE IF Strip(Head(segs)) # <<>>
         THEN <<Head(segs)>> \o StripKeep_unstripped(Tail(segs))
         ELSE StripKeep_unstripped(Tail(segs))

RECURSIVE StripKeep(_)
StripKeep(segs) ==
    IF segs = <<>> THEN <<>>
    ELSE IF Strip(Head(segs)) # <<>>
         THEN <<Strip(Head(segs))>> \o StripKeep(Tail(segs))
         ELSE StripKeep(Tail(segs))

ParseCommaList(s) == IF s # <<>> THEN StripKeep(Split(s, ",")) ELSE <<>>

\* the comma-separated tags inputs the store component is evaluated with
CommaInputs == { <<>>, <<" ", "a", ",", " ", ",", "b", " ">> }

----------------------------------------------------------------------------
(* The memory engine's records *)

Handles == {"h1", "h2"}

\* a record as the engine hands it out: a dict, or an object with to_dict()
MemoryRecords ==
    { [kind |-> "dict", fields |-> [id |-> "m1", content |-> "c1", memory_type |-> "fact"]],
      [kind |-> "obj",  fields |-> [id |-> "m2", content |-> "c2", similarity_score |-> 50]] }

\* memory.copy() if isinstance(memory, dict) else memory; then to_dict() if it has it
ToDict(memory) == memory.fields

HasAttr(attrs, name) == name \in attrs

\* sequences over S of length at most n
SeqsUpTo(S, n) == UNION { [1..k -> S] : k \in 0..n }

----------------------------------------------------------------------------
(* ElizaMemorySearchComponent *)

\* (memory_types, tags) input pairs the search component is evaluated with
SearchFilters == { << <<>>, <<>> >>,
                   << <<"a", ",", "b">>, <<" ", "a", ",", " ", ",", "b", " ">> >> }

SearchInputs ==
    { [ memory_instance   |-> mi,
        search_query      |-> q,
        memory_types      |-> f[1],
        tags              |-> f[2],
        limit             |-> 10,
        semantic_search   |-> sem,
        include_analytics |-> an ] :
      mi \in {None, "h1"}, q \in {"", "q"}, f \in SearchFilters,
      sem \in BOOLEAN, an \in BOOLEAN }

SearchAttrs == SUBSET {"search_memories_semantic", "get_memory_analytics"}

\* what search_memories_semantic yields: (record, score) pairs; an engine that
\* yields a bare record instead makes the tuple unpacking of the loop raise
SemanticItems ==
    { [kind |-> "pair", memory |-> r,
       similarity |-> IF r.kind = "dict" THEN 25 ELSE 90] : r \in MemoryRecords }
    \cup [kind : {"bare"}, memory : {CHOOSE r \in MemoryRecords : r.kind = "dict"}]

UnpackError == "cannot unpack non-iterable object"

Uncalled == [kind |-> "uncalled"]

AnalyticsValues == { [total_memories |-> "2"] }

\* mutant: the dispatch does not probe for the semantic method
UseSemantic_noProbe(in, attrs) == in.semantic_search

\* `if self.semantic_search and hasattr(self.memory_instance, 'search_memories_semantic')`
UseSemantic(in, attrs) ==
    in.semantic_search /\ HasAttr(attrs, "search_memories_semantic")

SearchMethod(in, attrs) ==
    IF UseSemantic(in, attrs) THEN "search_memories_semantic" ELSE "search_memories"

\* the answers the engine may give to the calls of one search_memories
\* invocation; a call the inputs rule out has no answer
SearchEngine(in, attrs) ==
    [ search    : IF in.memory_instance = None \/ in.search_query = ""
                  THEN {Uncalled}
                  ELSE { Raise(e) : e \in EngineErrors } \cup
                       { Return(v) : v \in SeqsUpTo(IF UseSemantic(in, attrs)
                                                    THEN SemanticItems ELSE MemoryRecords,
                                                    MaxResults) },
      analytics : IF in.memory_instance = None \/ in.search_query = ""
                     \/ ~HasAttr(attrs, "get_memory_analytics")
                  THEN {Uncalled}
                  ELSE { Raise(e) : e \in EngineErrors } \cup
                       { Return(a) : a \in AnalyticsValues } ]

\* the external search call: query, limit and memory_types; the parsed tags are
\* not among its arguments
SearchCall(in, attrs) ==
    LET memory_types == ParseCommaList(in.memory_types)
        tags         == ParseCommaList(in.tags)
    IN  Call(SearchMethod(in, attrs), <<in.search_query>>,
             [limit |-> in.limit, memory_types |-> memory_types])

\* mutant: the loop does not attach the similarity score
RECURSIVE ConvertSemantic_noScore(_, _)
ConvertSemantic_noScore(results, acc) ==
    IF results = <<>> THEN [items |-> acc, raised |-> FALSE, msg |-> ""]
    ELSE IF Head(results).kind # "pair"
         THEN [items |-> acc, raised |-> TRUE, msg |-> UnpackError]
         ELSE ConvertSemantic_noScore(Tail(results),
                  Append(acc, Data(ToDict(Head(results).memory))))

\* the loop of the semantic branch, from `acc` on
RECURSIVE ConvertSemantic(_, _)
ConvertSemantic(results, acc) ==
    IF results = <<>> THEN [items |-> acc, raised |-> FALSE, msg |-> ""]
    ELSE IF Head(results).kind # "pair"
         THEN [items |-> acc, raised |-> TRUE, msg |-> UnpackError]
         ELSE ConvertSemantic(Tail(results),
                  Append(acc, Data(SetItem(ToDict(Head(results).memory),
                                           "similarity_score",
                                           Head(results).similarity))))

\* the loop of the keyword branch
RECURSIVE ConvertKeyword(_, _)
ConvertKeyword(results, acc) ==
    IF results = <<>> THEN [items |-> acc, raised |-> FALSE, msg |-> ""]
    ELSE ConvertKeyword(Tail(results), Append(acc, Data(ToDict(Head(results)))))

SearchErrorStatus(e) == "Error searching memories: " \o e
FoundStatus(n) == "Found " \o Str(n) \o " memories"

\* mutant: the exception branch returns the cached list instead of []
SearchFailed_returnsCache(s, e) ==
    [s EXCEPT !.status = SearchErrorStatus(e), !.ret = s._search_results]

\* `except Exception as e:` of search_memories
SearchFailed(s, e) == [s EXCEPT !.status = SearchErrorStatus(e), !.ret = <<>>]

\* the end of the try block of search_memories
SearchFound(s) == [s EXCEPT !.status = FoundStatus(Len(s._search_results)),
                            !.ret = s._search_results]

\* the try block of search_memories
SearchTry(start, in, attrs, eng) ==
    LET s1   == [start EXCEPT !.calls = <<SearchCall(in, attrs)>>]
        conv == IF UseSemantic(in, attrs)
                THEN ConvertSemantic(eng.search.value, <<>>)
                ELSE ConvertKeyword(eng.search.value, <<>>)
        s2   == [s1 EXCEPT !._search_results = conv.items]
        s3   == [s2 EXCEPT !.calls =
                    Append(@, Call("get_memory_analytics", <<>>, EmptyDict))]
    IN  IF Raises(eng.search) THEN SearchFailed(s1, eng.search.msg)
        ELSE IF conv.raised THEN SearchFailed(s2, conv.msg)
        ELSE IF in.include_analytics /\ HasAttr(attrs, "get_memory_analytics")
        THEN IF Raises(eng.analytics) THEN SearchFailed(s3, eng.analytics.msg)
             ELSE SearchFound([s3 EXCEPT !._analytics = eng.analytics.value])
        ELSE SearchFound(s2)

\* mutant: the query is checked before the memory instance
SearchMemories_queryFirst(self, in, attrs, eng) ==
    LET start == [status |-> self.status,
                  _search_results |-> self._search_results,
                  _analytics |-> self._analytics,
                  ret |-> <<>>, calls |-> <<>>]
    IN  IF in.search_query = ""
        THEN [start EXCEPT !.status = "No search query provided"]
        ELSE IF in.memory_instance = None
        THEN [start EXCEPT !.status = "No memory instance provided"]
        ELSE SearchTry(start, in, attrs, eng)

\* search_memories(self): self is [status, _search_results, _analytics]; the
\* value is self after the call, with the returned list and the calls made
SearchMemories(self, in, attrs, eng) ==
    LET start == [status |-> self.status,
                  _search_results |-> self._search_results,
                  _analytics |-> self._analytics,
                  ret |-> <<>>, calls |-> <<>>]
    IN  IF in.memory_instance = None
        THEN [start EXCEPT !.status = "No memory instance provided"]
        ELSE IF in.search_query = ""
        THEN [start EXCEPT !.status = "No search query provided"]
        ELSE SearchTry(start, in, attrs, eng)

\* memory_type.upper() of the memory types that occur
Upper(t) == CASE t = "fact" -> "FACT" [] t = "unknown" -> "UNKNOWN" [] OTHER -> t

\* f"{similarity:.2f}" of a score in hundredths
Fmt2f(h) == Str(h \div 100) \o "." \o Digit[((h \div 10) % 10) + 1] \o Digit[(h % 10) + 1]

\* one numbered entry of the formatted text, as the pieces it is concatenated from
FormatEntry(i, d) ==
    <<Str(i), ". [", Upper(Get(d, "memory_type", "unknown")), "] ",
      Get(d, "content", "No content")>>
    \o (IF "similarity_score" \in DOMAIN d
        THEN <<" (similarity: ", Fmt2f(d["similarity_score"]), ")">> ELSE <<>>)

\* the text of get_formatted_results, as its paragraphs (each ends in "\n\n")
FormattedResults(results) ==
    IF results = <<>> THEN Message(<<<<"No memories found for the given query.">>>>)
    ELSE Message(<< <<"Found ", Str(Len(results)), " memories:">> >>
                 \o [i \in 1..Len(results) |-> FormatEntry(i, results[i].data)])

\* the answers of the calls that were made
Consumed(eng, cs) ==
    [f \in DOMAIN eng |->
        IF \E i \in 1..Len(cs) :
               \/ f = "search" /\ cs[i].method \in {"search_memories", "search_memories_semantic"}
               \/ f = "analytics" /\ cs[i].method = "get_memory_analytics"
        THEN eng[f] ELSE Uncalled]

SearchSelf == [status |-> status, _search_results |-> _search_results,
               _analytics |-> _analytics]

\* an invocation of search_memories by output method `name`: the component's
\* state after it, and what the engine was asked and answered
SearchInvoke(name, s, eng) ==
    /\ status' = s.status
    /\ _search_results' = s._search_results
    /\ _analytics' = s._analytics
    /\ op' = name
    /\ calls' = s.calls
    /\ response' = Consumed(eng, s.calls)
    /\ UNCHANGED <<node, inputs, engine_attrs, storeVars, memoryVars, countVars>>

search_memories ==
    /\ node = "search"
    /\ \E eng \in SearchEngine(inputs, engine_attrs) :
         \E s \in {SearchMemories(SearchSelf, inputs, engine_attrs, eng)} :
            /\ SearchInvoke("search_memories", s, eng)
            /\ result' = s.ret

get_formatted_results ==
    /\ node = "search"
    /\ \E eng \in SearchEngine(inputs, engine_attrs) :
         \E s \in {SearchMemories(SearchSelf, inputs, engine_attrs, eng)} :
            /\ SearchInvoke("get_formatted_results", s, eng)
            /\ result' = FormattedResults(s._search_results)

get_memory_analytics ==
    /\ node = "search"
    /\ \E eng \in SearchEngine(inputs, engine_attrs) :
         \E s \in {SearchMemories(SearchSelf, inputs, engine_attrs, eng)} :
            /\ SearchInvoke("get_memory_analytics", s, eng)
            /\ result' = Data(s._analytics)

get_result_count ==
    /\ node = "search"
    /\ \E eng \in SearchEngine(inputs, engine_attrs) :
         \E s \in {SearchMemories(SearchSelf, inputs, engine_attrs, eng)} :
            /\ SearchInvoke("get_result_count", s, eng)
            /\ result' = Message(Str(Len(s._search_results)))

\* ElizaMemorySearchComponent.__init__
InitSearch ==
    /\ node = "search"
    /\ inputs \in SearchInputs
    /\ engine_attrs \in SearchAttrs
    /\ status = None
    /\ _search_results = <<>>
    /\ _analytics = EmptyDict
    /\ _stored_memory = NoneObj /\ _memory_id = None /\ _storage_status = None
    /\ _memory_instance = None /\ _memory_context = ""
    /\ _stored_message = NoneObj /\ _relevant_memories = <<>>
    /\ op = "__init__" /\ result = None /\ calls = <<>>
    /\ invocations = 0 /\ store_calls = 0
    /\ response = [search |-> Uncalled, analytics |-> Uncalled]

NextSearch ==
    \/ search_memories
    \/ get_formatted_results
    \/ get_memory_analytics
    \/ get_result_count

SpecSearch == InitSearch /\ [][NextSearch]_vars

----------------------------------------------------------------------------
(* ElizaMemoryStoreComponent *)

StoreInputs ==
    [ memory_instance : {None} \cup Handles,
      content         : {"", "c"},
      user_id         : {"anonymous"},
      session_id      : {"default_session"},
      memory_type     : {"general"},
      tags            : CommaInputs,
      metadata        : {EmptyDict},
      relevance_score : {100} ]

StoreAttrs == SUBSET {"add_memory", "store_memory", "memory_store"}

\* what memory_instance.memory_store.memories may hold when it is read
StoredRecords == { [id |-> "m1", content |-> "c"], [content |-> "old"] }

\* what the engine's store_memory may return: nothing, a plain id, or a record
\* object with to_dict() (with or without an id attribute)
StoreReturns ==
    { [kind |-> "none"] }
    \cup [kind : {"id"}, value : {0, 7}]
    \cup [kind : {"obj"}, has_id : BOOLEAN, id : {3}, fields : {[content |-> "c"]}]

\* `if stored_memory_obj:`
Truthy(obj) == CASE obj.kind = "none" -> FALSE
                 [] obj.kind = "id"   -> obj.value # 0
                 [] OTHER             -> TRUE

NoIdError == "object has no attribute 'id'"

\* the answers the engine may give during one store_memory invocation
StoreEngine(in, attrs) ==
    LET ready  == in.memory_instance # None /\ in.content # ""
        raises == { Raise(e) : e \in EngineErrors }
    IN  [ add      : IF ready /\ HasAttr(attrs, "add_memory")
                     THEN raises \cup { Return(i) : i \in {None, "m1", "m2"} }
                     ELSE {Uncalled},
          memories : IF ready /\ HasAttr(attrs, "add_memory") /\ HasAttr(attrs, "memory_store")
                     THEN { Return(v) : v \in SeqsUpTo(StoredRecords, MaxResults) }
                     ELSE {Uncalled},
          store    : IF ready /\ ~HasAttr(attrs, "add_memory") /\ HasAttr(attrs, "store_memory")
                     THEN raises \cup { Return(v) : v \in StoreReturns }
                     ELSE {Uncalled} ]

\* the fallback Data built from the current inputs
StoreFallback(in, tags) ==
    [ content |-> in.content, memory_type |-> in.memory_type, user_id |-> in.user_id,
      session_id |-> in.session_id, tags |-> tags, metadata |-> in.metadata,
      relevance_score |-> in.relevance_score ]

StoreErrorStatus(e) == "Error storing memory: " \o e
StoredStatus(id) == "Successfully stored memory with ID: " \o id

\* `[m for m in memories if m.get('id') == self._memory_id]`
MatchingMemories(memories, id) ==
    SelectSeq(memories, LAMBDA m : Get(m, "id", None) = id)

\* `except Exception as e:` of store_memory
StoreFailed(s, e) == [s EXCEPT !._storage_status = StoreErrorStatus(e),
                               !.ret = Data(EmptyDict)]

\* mutant: the final else is missing and the method falls through to its tail
StoreUnsupported_fallsThrough(s, in, tags) ==
    [s EXCEPT !._storage_status = "Memory stored but ID not available",
              !.ret = Data(StoreFallback(in, tags))]

\* the instance has neither add_memory nor store_memory
StoreUnsupported(s, in, tags) ==
    [s EXCEPT !._storage_status = "Error: Memory instance does not support memory storage",
              !.ret = Data(EmptyDict)]

\* the tail of store_memory, after the dispatch
StoreFinish(s, in, tags) ==
    [s EXCEPT !._storage_status = IF s._memory_id # None
                                  THEN StoredStatus(s._memory_id)
                                  ELSE "Memory stored but ID not available",
              !.ret = IF s._stored_memory # NoneObj
                      THEN s._stored_memory ELSE Data(StoreFallback(in, tags))]

\* the add_memory branch
StoreViaAdd(start, in, attrs, eng, tags) ==
    LET s1 == [start EXCEPT !.calls = <<Call("add_memory", <<>>,
                                [content |-> in.content, memory_type |-> in.memory_type,
                                 metadata |-> in.metadata, tags |-> tags])>>]
        s2 == [s1 EXCEPT !._memory_id = eng.add.value]
    IN  IF Raises(eng.add)
        THEN StoreFailed(s1, eng.add.msg)
        ELSE IF HasAttr(attrs, "memory_store")
                /\ MatchingMemories(eng.memories.value, s2._memory_id) # <<>>
        THEN StoreFinish([s2 EXCEPT !._stored_memory =
                 Data(MatchingMemories(eng.memories.value, s2._memory_id)[1])], in, tags)
        ELSE StoreFinish(s2, in, tags)

\* the store_memory branch (database-backed instances)
StoreViaStore(start, in, attrs, eng, tags) ==
    LET s1  == [start EXCEPT !.calls = <<Call("store_memory", <<>>,
                                [user_id |-> in.user_id, content |-> in.content,
                                 memory_type |-> in.memory_type,
                                 session_id |-> in.session_id, metadata |-> in.metadata,
                                 tags |-> tags, relevance_score |-> in.relevance_score])>>]
        obj == eng.store.value
    IN  IF Raises(eng.store)
        THEN StoreFailed(s1, eng.store.msg)
        ELSE IF ~Truthy(obj) THEN StoreFinish(s1, in, tags)
        ELSE IF obj.kind = "obj"
        THEN IF obj.has_id
             THEN StoreFinish([s1 EXCEPT !._stored_memory = Data(obj.fields),
                                         !._memory_id = Str(obj.id)], in, tags)
             ELSE StoreFailed([s1 EXCEPT !._stored_memory = Data(obj.fields)], NoIdError)
        ELSE StoreFinish([s1 EXCEPT !._stored_memory = Data([id |-> Str(obj.value)]),
                                    !._memory_id = Str(obj.value)], in, tags)

\* mutant: store_memory memoises, and after its first run hands back what it
\* cached without calling the engine
StoreMemory_memoised(self, in, attrs, eng) ==
    LET start == [_stored_memory |-> self._stored_memory,
                  _memory_id |-> self._memory_id,
                  _storage_status |-> self._storage_status,
                  ret |-> Data(EmptyDict), calls |-> <<>>]
        tags  == ParseCommaList(in.tags)
    IN  IF self._storage_status # "Not attempted"
        THEN [start EXCEPT !.ret = IF self._stored_memory # NoneObj
                                   THEN self._stored_memory ELSE Data(EmptyDict)]
        ELSE IF in.memory_instance = None
        THEN [start EXCEPT !._storage_status = "Error: No memory instance provided"]
        ELSE IF in.content = ""
        THEN [start EXCEPT !._storage_status = "Error: No content provided"]
        ELSE IF HasAttr(attrs, "add_memory")
        THEN StoreViaAdd(start, in, attrs, eng, tags)
        ELSE IF HasAttr(attrs, "store_memory")
        THEN StoreViaStore(start, in, attrs, eng, tags)
        ELSE StoreUnsupported(start, in, tags)

\* store_memory(self): self is [_stored_memory, _memory_id, _storage_status]; the
\* value is self after the call, with the returned Data and the calls made
StoreMemory(self, in, attrs, eng) ==
    LET start == [_stored_memory |-> self._stored_memory,
                  _memory_id |-> self._memory_id,
                  _storage_status |-> self._storage_status,
                  ret |-> Data(EmptyDict), calls |-> <<>>]
        tags  == ParseCommaList(in.tags)
    IN  IF in.memory_instance = None
        THEN [start EXCEPT !._storage_status = "Error: No memory instance provided"]
        ELSE IF in.content = ""
        THEN [start EXCEPT !._storage_status = "Error: No content provided"]
        ELSE IF HasAttr(attrs, "add_memory")
        THEN StoreViaAdd(start, in, attrs, eng, tags)
        ELSE IF HasAttr(attrs, "store_memory")
        THEN StoreViaStore(start, in, attrs, eng, tags)
        ELSE StoreUnsupported(start, in, tags)

\* the answers that were used: those of the calls made, and the store's
\* contents when they were read
StoreConsumed(eng, attrs, cs) ==
    [ add      |-> IF \E i \in 1..Len(cs) : cs[i].method = "add_memory"
                   THEN eng.add ELSE Uncalled,
      memories |-> IF (\E i \in 1..Len(cs) : cs[i].method = "add_memory")
                      /\ ~Raises(eng.add) /\ HasAttr(attrs, "memory_store")
                   THEN eng.memories ELSE Uncalled,
      store    |-> IF \E i \in 1..Len(cs) : cs[i].method = "store_memory"
                   THEN eng.store ELSE Uncalled ]

\* mutant: the handle is withheld when the store failed
UpdatedMemoryInstance_noneOnError(in, s) ==
    IF s.ret = Data(EmptyDict) THEN None ELSE in.memory_instance

\* get_updated_memory_instance, after its store_memory() call left s
UpdatedMemoryInstance(in, s) == in.memory_instance

StoreSelf == [_stored_memory |-> _stored_memory, _memory_id |-> _memory_id,
              _storage_status |-> _storage_status]

\* how many of the calls are store calls on the engine
StoreCalls(cs) ==
    Cardinality({ i \in 1..Len(cs) : cs[i].method \in {"add_memory", "store_memory"} })

\* an invocation of store_memory by output method `name`
StoreInvoke(name, s, eng) ==
    /\ invocations < MaxInvocations
    /\ invocations' = invocations + 1
    /\ store_calls' = store_calls + StoreCalls(s.calls)
    /\ _stored_memory' = s._stored_memory
    /\ _memory_id' = s._memory_id
    /\ _storage_status' = s._storage_status
    /\ op' = name
    /\ calls' = s.calls
    /\ response' = StoreConsumed(eng, engine_attrs, s.calls)
    /\ UNCHANGED <<node, inputs, engine_attrs, searchVars, memoryVars>>

store_memory ==
    /\ node = "store"
    /\ \E eng \in StoreEngine(inputs, engine_attrs) :
         \E s \in {StoreMemory(StoreSelf, inputs, engine_attrs, eng)} :
            /\ StoreInvoke("store_memory", s, eng)
            /\ result' = s.ret

get_memory_id ==
    /\ node = "store"
    /\ \E eng \in StoreEngine(inputs, engine_attrs) :
         \E s \in {StoreMemory(StoreSelf, inputs, engine_attrs, eng)} :
            /\ StoreInvoke("get_memory_id", s, eng)
            /\ result' = Message(IF s._memory_id # None THEN s._memory_id
                                 ELSE "No memory ID available")

get_storage_status ==
    /\ node = "store"
    /\ \E eng \in StoreEngine(inputs, engine_attrs) :
         \E s \in {StoreMemory(StoreSelf, inputs, engine_attrs, eng)} :
            /\ StoreInvoke("get_storage_status", s, eng)
            /\ result' = Message(s._storage_status)

get_updated_memory_instance ==
    /\ node = "store"
    /\ \E eng \in StoreEngine(inputs, engine_attrs) :
         \E s \in {StoreMemory(StoreSelf, inputs, engine_attrs, eng)} :
            /\ StoreInvoke("get_updated_memory_instance", s, eng)
            /\ result' = UpdatedMemoryInstance(inputs, s)

\* ElizaMemoryStoreComponent.__init__
InitStore ==
    /\ node = "store"
    /\ inputs \in StoreInputs
    /\ engine_attrs \in StoreAttrs
    /\ _stored_memory = NoneObj
    /\ _memory_id = None
    /\ _storage_status = "Not attempted"
    /\ status = None /\ _search_results = <<>> /\ _analytics = EmptyDict
    /\ _memory_instance = None /\ _memory_context = ""
    /\ _stored_message = NoneObj /\ _relevant_memories = <<>>
    /\ op = "__init__" /\ result = None /\ calls = <<>>
    /\ invocations = 0 /\ store_calls = 0
    /\ response = [add |-> Uncalled, memories |-> Uncalled, store |-> Uncalled]

NextStore ==
    \/ store_memory
    \/ get_memory_id
    \/ get_storage_status
    \/ get_updated_memory_instance

SpecStore == InitStore /\ [][NextStore]_vars

----------------------------------------------------------------------------
(* ElizaMemoryComponent *)

MemoryInputs ==
    [ session_id       : {"default_session"},
      user_id          : {"anonymous"},
      message          : {"", "hi"},
      extract_memories : {TRUE},
      include_context  : BOOLEAN,
      max_memories     : {5},
      metadata         : {EmptyDict, [topic |-> "t"]},
      existing_memory  : {None} \cup Handles ]

\* the instance create_eliza_memory makes, and the instance's memory_key
CreatedHandle == "h_new"
MemoryKey == "history"

ImportError == "No module named 'langchain.memory.eliza_memory'"

\* the steps of build_memory that may raise, in the order the code reaches them
BuildSteps == <<"import", "create", "save", "search", "load", "timestamp">>

\* whether build_memory reaches the step when nothing before it raises
Reaches(in, step) ==
    CASE step = "import"    -> TRUE
      [] step = "create"    -> in.existing_memory = None
      [] step = "save"      -> in.message # ""
      [] step = "search"    -> in.message # "" /\ in.include_context
      [] step = "load"      -> in.message # "" /\ in.include_context
      [] step = "timestamp" -> in.message # ""

\* what each step returns when it does not raise
StepReturns(step) ==
    CASE step = "import"    -> { Return(None) }
      [] step = "create"    -> { Return(CreatedHandle) }
      [] step = "save"      -> { Return(None) }
      [] step = "search"    -> { Return(v) : v \in SeqsUpTo({[id |-> "m1", content |-> "c1"]},
                                                             MaxResults) }
      [] step = "load"      -> { Return(EmptyDict), Return([history |-> "ctx"]) }
      [] step = "timestamp" -> { Return("t1") }

\* the answers step j may give when step k is the one that raises (k = 0: none)
StepAnswers(in, j, k) ==
    IF ~Reaches(in, BuildSteps[j]) \/ (k # 0 /\ j > k) THEN {Uncalled}
    ELSE IF j = k
    THEN { Raise(e) : e \in IF BuildSteps[j] = "import" THEN {ImportError} ELSE EngineErrors }
    ELSE StepReturns(BuildSteps[j])

\* the answers of one build_memory invocation: step k raises, the steps before
\* it return, the steps after it are not reached
MemoryEngine(in) ==
    UNION { [ import    : StepAnswers(in, 1, k),
              create    : StepAnswers(in, 2, k),
              save      : StepAnswers(in, 3, k),
              search    : StepAnswers(in, 4, k),
              load      : StepAnswers(in, 5, k),
              timestamp : StepAnswers(in, 6, k) ]
            : k \in {0} \cup { j \in 1..Len(BuildSteps) : Reaches(in, BuildSteps[j]) } }

BuildErrorStatus(e) == "Error building memory: " \o e
ProcessErrorStatus(e) == "Error processing message: " \o e

\* `except Exception as e:` of build_memory and of _process_message
BuildFailed(s, e) == [s EXCEPT !.status = BuildErrorStatus(e), !.ret = None]
ProcessFailed(s, e) == [s EXCEPT !.status = ProcessErrorStatus(e)]

\* inputs = {"input": self.message}; inputs.update(self.metadata)
ContextInputs(in) == in.metadata @@ ("input" :> in.message)

\* the end of _process_message: the stored message data
StoreMessage(s, in, eng) ==
    LET s1 == [s EXCEPT !.calls = Append(@, Call("_get_timestamp", <<>>, EmptyDict))]
    IN  IF Raises(eng.timestamp)
        THEN ProcessFailed(s1, eng.timestamp.msg)
        ELSE [s1 EXCEPT !._stored_message =
                 Data([content |-> in.message, session_id |-> in.session_id,
                       user_id |-> in.user_id, timestamp |-> eng.timestamp.value,
                       metadata |-> in.metadata])]

\* mutant: the memory variables are loaded before the memories are searched
ProcessMessage_loadFirst(s, in, eng) ==
    LET s1 == [s EXCEPT !.calls = Append(@, Call("save_context",
                                  <<ContextInputs(in), [output |-> ""]>>, EmptyDict))]
        s2 == [s1 EXCEPT !.calls = Append(@, Call("load_memory_variables",
                                  <<ContextInputs(in)>>, EmptyDict))]
        s3 == [s2 EXCEPT !._relevant_memories = eng.search.value,
                         !.calls = Append(@, Call("search_memories", <<in.message>>,
                                  [limit |-> in.max_memories]))]
    IN  IF s._memory_instance = None \/ in.message = "" THEN s
        ELSE IF Raises(eng.save)
        THEN ProcessFailed(s1, eng.save.msg)
        ELSE IF ~in.include_context THEN StoreMessage(s1, in, eng)
        ELSE IF Raises(eng.search)
        THEN ProcessFailed(s2, eng.search.msg)
        ELSE IF Raises(eng.load)
        THEN ProcessFailed(s3, eng.load.msg)
        ELSE StoreMessage([s3 EXCEPT !._memory_context =
                               Get(eng.load.value, MemoryKey, "")], in, eng)

\* _process_message(self)
ProcessMessage(s, in, eng) ==
    LET s1 == [s EXCEPT !.calls = Append(@, Call("save_context",
                                  <<ContextInputs(in), [output |-> ""]>>, EmptyDict))]
        s2 == [s1 EXCEPT !.calls = Append(@, Call("search_memories", <<in.message>>,
                                  [limit |-> in.max_memories]))]
        s3 == [s2 EXCEPT !._relevant_memories = eng.search.value,
                         !.calls = Append(@, Call("load_memory_variables",
                                  <<ContextInputs(in)>>, EmptyDict))]
    IN  IF s._memory_instance = None \/ in.message = "" THEN s
        ELSE IF Raises(eng.save)
        THEN ProcessFailed(s1, eng.save.msg)
        ELSE IF ~in.include_context THEN StoreMessage(s1, in, eng)
        ELSE IF Raises(eng.search)
        THEN ProcessFailed(s2, eng.search.msg)
        ELSE IF Raises(eng.load)
        THEN ProcessFailed(s3, eng.load.msg)
        ELSE StoreMessage([s3 EXCEPT !._memory_context =
                               Get(eng.load.value, MemoryKey, "")], in, eng)

\* build_memory(self) once self._memory_instance is set
BuildWithInstance(s, in, eng) ==
    LET s1 == IF in.message # "" THEN ProcessMessage(s, in, eng) ELSE s
    IN  [s1 EXCEPT !.ret = s1._memory_instance]

\* build_memory(self): self is [status, _memory_instance, _memory_context,
\* _stored_message, _relevant_memories]
BuildMemory(self, in, eng) ==
    LET start == [status |-> self.status,
                  _memory_instance |-> self._memory_instance,
                  _memory_context |-> self._memory_context,
                  _stored_message |-> self._stored_message,
                  _relevant_memories |-> self._relevant_memories,
                  ret |-> None, calls |-> <<>>]
        s1    == [start EXCEPT !.calls = <<Call("create_eliza_memory", <<>>,
                                [session_id |-> in.session_id, user_id |-> in.user_id,
                                 memory_extraction |-> in.extract_memories])>>]
    IN  IF Raises(eng.import)
        THEN BuildFailed(start, eng.import.msg)
        ELSE IF in.existing_memory # None
        THEN BuildWithInstance([start EXCEPT !._memory_instance = in.existing_memory],
                               in, eng)
        ELSE IF Raises(eng.create)
        THEN BuildFailed(s1, eng.create.msg)
        ELSE BuildWithInstance([s1 EXCEPT !._memory_instance = eng.create.value], in, eng)

MemorySelf == [status |-> status, _memory_instance |-> _memory_instance,
               _memory_context |-> _memory_context,
               _stored_message |-> _stored_message,
               _relevant_memories |-> _relevant_memories]

\* an invocation of build_memory by method `name`
MemoryInvoke(name, s, eng) ==
    /\ status' = s.status
    /\ _memory_instance' = s._memory_instance
    /\ _memory_context' = s._memory_context
    /\ _stored_message' = s._stored_message
    /\ _relevant_memories' = s._relevant_memories
    /\ op' = name
    /\ calls' = s.calls
    /\ response' = eng
    /\ UNCHANGED <<node, inputs, engine_attrs, _search_results, _analytics, storeVars,
                   countVars>>

build_memory ==
    /\ node = "memory"
    /\ \E eng \in MemoryEngine(inputs) :
         \E s \in {BuildMemory(MemorySelf, inputs, eng)} :
            /\ MemoryInvoke("build_memory", s, eng)
            /\ result' = s.ret

get_memory_context ==
    /\ node = "memory"
    /\ \E eng \in MemoryEngine(inputs) :
         \E s \in {BuildMemory(MemorySelf, inputs, eng)} :
            /\ MemoryInvoke("get_memory_context", s, eng)
            /\ result' = Message(IF s._memory_context # "" THEN s._memory_context
                                 ELSE "No memory context available.")

get_memory_instance ==
    /\ node = "memory"
    /\ \E eng \in MemoryEngine(inputs) :
         \E s \in {BuildMemory(MemorySelf, inputs, eng)} :
            /\ MemoryInvoke("get_memory_instance", s, eng)
            /\ result' = s.ret

get_stored_message ==
    /\ node = "memory"
    /\ \E eng \in MemoryEngine(inputs) :
         \E s \in {BuildMemory(MemorySelf, inputs, eng)} :
            /\ MemoryInvoke("get_stored_message", s, eng)
            /\ result' = IF s._stored_message # NoneObj THEN s._stored_message
                         ELSE Data(EmptyDict)

get_relevant_memories ==
    /\ node = "memory"
    /\ \E eng \in MemoryEngine(inputs) :
         \E s \in {BuildMemory(MemorySelf, inputs, eng)} :
            /\ MemoryInvoke("get_relevant_memories", s, eng)
            /\ result' = [i \in 1..Len(s._relevant_memories) |->
                             Data(s._relevant_memories[i])]

\* ElizaMemoryComponent.__init__
InitMemory ==
    /\ node = "memory"
    /\ inputs \in MemoryInputs
    /\ engine_attrs = {}
    /\ status = None
    /\ _memory_instance = None
    /\ _memory_context = ""
    /\ _stored_message = NoneObj
    /\ _relevant_memories = <<>>
    /\ _search_results = <<>> /\ _analytics = EmptyDict
    /\ _stored_memory = NoneObj /\ _memory_id = None /\ _storage_status = None
    /\ op = "__init__" /\ result = None /\ calls = <<>>
    /\ invocations = 0 /\ store_calls = 0
    /\ response = [f \in { BuildSteps[j] : j \in 1..Len(BuildSteps) } |-> Uncalled]

NextMemory ==
    \/ build_memory
    \/ get_memory_context
    \/ get_memory_instance
    \/ get_stored_message
    \/ get_relevant_memories

SpecMemory == InitMemory /\ [][NextMemory]_vars

----------------------------------------------------------------------------
(* One component object of any of the three classes *)

Init == InitMemory \/ InitSearch \/ InitStore

Next == NextMemory \/ NextSearch \/ NextStore

Spec == Init /\ [][Next]_vars

----------------------------------------------------------------------------
(* Comma-list parsing on its own: a store node and a search node that are   *)
(* given every short string as their comma-separated tags / memory_types,   *)
(* with an engine that has only the mandatory methods.                      *)

MaxLen == 3

ParseChars == {"a", "b", ",", " ", "\t"}

CommaStrings == UNION { [1..k -> ParseChars] : k \in 0..MaxLen }

InitParse ==
    /\ \/ /\ node = "store"
          /\ \E s \in CommaStrings :
                inputs = [ memory_instance |-> "h1", content |-> "c",
                           user_id |-> "anonymous", session_id |-> "default_session",
                           memory_type |-> "general", tags |-> s,
                           metadata |-> EmptyDict, relevance_score |-> 100 ]
          /\ engine_attrs = {"add_memory"}
          /\ status = None /\ _storage_status = "Not attempted"
          /\ response = [add |-> Uncalled, memories |-> Uncalled, store |-> Uncalled]
       \/ /\ node = "search"
          /\ \E s \in CommaStrings :
                inputs = [ memory_instance |-> "h1", search_query |-> "q",
                           memory_types |-> s, tags |-> <<>>, limit |-> 10,
                           semantic_search |-> FALSE, include_analytics |-> FALSE ]
          /\ engine_attrs = {}
          /\ status = None /\ _storage_status = None
          /\ response = [search |-> Uncalled, analytics |-> Uncalled]
    /\ _search_results = <<>> /\ _analytics = EmptyDict
    /\ _stored_memory = NoneObj /\ _memory_id = None
    /\ _memory_instance = None /\ _memory_context = ""
    /\ _stored_message = NoneObj /\ _relevant_memories = <<>>
    /\ op = "__init__" /\ result = None /\ calls = <<>>
    /\ invocations = 0 /\ store_calls = 0

NextParse == store_memory \/ search_memories

SpecParse == InitParse /\ [][NextParse]_vars

----------------------------------------------------------------------------
(* Properties *)

Methods(cs) == [i \in 1..Len(cs) |-> cs[i].method]
CountOf(cs, ms) == Cardinality({ i \in 1..Len(cs) : cs[i].method \in ms })
AnyRaise(resp) == \E f \in DOMAIN resp : resp[f].kind = "raise"
Invoked == op # "__init__"

\* C1 as stated: whenever a call on the engine raises, the method sets an error
\* status and returns its empty envelope: None for build_memory, the empty list
\* for search_memories, Data with an empty payload for store_memory.
C1_ErrorsGiveEmptyEnvelope ==
    /\ (node = "search" /\ AnyRaise(response)) =>
          /\ status = "Error searching memories: engine failure"
          /\ (op = "search_memories" => result = <<>>)
    /\ (node = "store" /\ AnyRaise(response)) =>
          /\ _storage_status = "Error storing memory: engine failure"
          /\ (op = "store_memory" => result = Data(EmptyDict))
    /\ (node = "memory" /\ AnyRaise(response)) =>
          /\ status \in {"Error building memory: engine failure",
                         "Error building memory: No module named 'langchain.memory.eliza_memory'",
                         "Error processing message: engine failure"}
          /\ (op \in {"build_memory", "get_memory_instance"} => result = None)

\* C1 amended: a raising engine call never escapes and always leaves an error
\* status.  search_memories then returns the empty list and store_memory Data
\* with an empty payload.  build_memory returns None only when the import or
\* create_eliza_memory raises; when a call made while processing the message
\* raises, the status is "Error processing message: ..." and build_memory
\* returns the memory instance.
C1_ErrorsHandled ==
    /\ (node = "search" /\ AnyRaise(response)) =>
          /\ status = "Error searching memories: engine failure"
          /\ (op = "search_memories" => result = <<>>)
    /\ (node = "store" /\ AnyRaise(response)) =>
          /\ _storage_status = "Error storing memory: engine failure"
          /\ (op = "store_memory" => result = Data(EmptyDict))
    /\ (node = "memory" /\ AnyRaise(response)) =>
          IF Raises(response.import) \/ Raises(response.create)
          THEN /\ status \in {"Error building memory: engine failure",
                              "Error building memory: No module named 'langchain.memory.eliza_memory'"}
               /\ (op \in {"build_memory", "get_memory_instance"} => result = None)
          ELSE /\ status = "Error processing message: engine failure"
               /\ (op \in {"build_memory", "get_memory_instance"} =>
                      result = IF inputs.existing_memory # None
                               THEN inputs.existing_memory ELSE "h_new")

\* save_context raised inside build_memory, which returned the given handle
C1_Witness ==
    /\ node = "memory" /\ op = "build_memory"
    /\ Raises(response.save)
    /\ result = "h1"
    /\ status = "Error processing message: engine failure"

\* C2 as stated: after a search_memories invocation that ended in the exception
\* branch, the cached result list read by get_result_count and
\* get_formatted_results is empty.
C2_FailedSearchCachesNothing ==
    (node = "search" /\ status \in {"Error searching memories: engine failure",
                                     "Error searching memories: cannot unpack non-iterable object"})
        => _search_results = <<>>

\* C3 as stated: when the tags input parses to a non-empty list and the
\* preconditions hold, the parsed tag list is handed to the engine's search call.
C3_TagsReachEngine ==
    (node = "search" /\ calls # <<>> /\ ParseCommaList(inputs.tags) # <<>>)
        => /\ "tags" \in DOMAIN calls[1].kwargs
           /\ calls[1].kwargs["tags"] = ParseCommaList(inputs.tags)

\* C4: when memory instance and query are present, an invocation makes exactly
\* one external search call, also when it raises; the call is
\* search_memories_semantic iff semantic_search is set and the instance has that
\* method, and the keyword search_memories otherwise; never both.
C4_SearchDispatch ==
    (node = "search" /\ Invoked /\ inputs.memory_instance # None /\ inputs.search_query # "")
        => /\ CountOf(calls, {"search_memories", "search_memories_semantic"}) = 1
           /\ calls[1].method =
                 IF inputs.semantic_search /\ "search_memories_semantic" \in engine_attrs
                 THEN "search_memories_semantic" ELSE "search_memories"
           /\ response.search.kind \in {"raise", "return"}

\* semantic search was asked of an instance without the semantic method, the
\* keyword call was made once and raised
C4_Witness ==
    /\ node = "search" /\ op = "search_memories"
    /\ inputs.semantic_search /\ "search_memories_semantic" \notin engine_attrs
    /\ Methods(calls) = <<"search_memories">>
    /\ Raises(response.search)

\* C5: when instance and content are present, add_memory is called when the
\* instance has it (even if it has store_memory too), store_memory only when
\* add_memory is absent, never both; with neither, no external call is made,
\* the status names the missing support and the returned Data is empty.
C5_StoreDispatch ==
    (node = "store" /\ Invoked /\ inputs.memory_instance # None /\ inputs.content # "")
        => /\ "add_memory" \in engine_attrs => Methods(calls) = <<"add_memory">>
           /\ ("add_memory" \notin engine_attrs /\ "store_memory" \in engine_attrs)
                 => Methods(calls) = <<"store_memory">>
           /\ ("add_memory" \notin engine_attrs /\ "store_memory" \notin engine_attrs)
                 => /\ calls = <<>>
                    /\ _storage_status = "Error: Memory instance does not support memory storage"
                    /\ (op = "store_memory" => result = [data |-> EmptyDict])

\* an instance with both methods was stored to through add_memory alone
C5_Witness ==
    /\ node = "store" /\ op = "store_memory"
    /\ {"add_memory", "store_memory"} \subseteq engine_attrs
    /\ Methods(calls) = <<"add_memory">>
    /\ response.add.kind = "return"

\* C6: the memory-instance handle passes through unchanged:
\* get_updated_memory_instance returns the handle given as memory_instance
\* whatever the store did; and with an existing_memory handle and no exception,
\* build_memory / get_memory_instance returns that handle and
\* create_eliza_memory is not called.
C6_HandlePassedThrough ==
    /\ (node = "store" /\ op = "get_updated_memory_instance")
          => result = inputs.memory_instance
    /\ (node = "memory" /\ op \in {"build_memory", "get_memory_instance"}
          /\ inputs.existing_memory # None /\ ~AnyRaise(response))
          => /\ result = inputs.existing_memory
             /\ _memory_instance = inputs.existing_memory
             /\ CountOf(calls, {"create_eliza_memory"}) = 0

\* the engine's add_memory raised and the handle still came back unchanged
C6_Witness ==
    /\ node = "store" /\ op = "get_updated_memory_instance"
    /\ Raises(response.add)
    /\ result = "h2" /\ inputs.memory_instance = "h2"

\* C7 as stated: an invocation of store_memory that takes no error branch
\* reports only what the engine returned in that invocation: when the engine
\* returns no id, no id is reported, and when there is no matching record, the
\* returned Data is the fallback built from the current inputs.
C7_OutputsOfThisInvocationOnly ==
    (node = "store" /\ Invoked /\ ~AnyRaise(response)) =>
        /\ (response.store.kind = "return" /\ ~Truthy(response.store.value))
              => /\ _storage_status = "Memory stored but ID not available"
                 /\ (op = "get_memory_id" => result = [text |-> "No memory ID available"])
                 /\ (op = "store_memory"
                        => result = [data |-> StoreFallback(inputs, ParseCommaList(inputs.tags))])
        /\ response.add.kind = "return"
              => /\ _memory_id = response.add.value
                 /\ (op = "store_memory"
                       /\ (response.memories.kind = "uncalled"
                           \/ \A i \in 1..Len(response.memories.value) :
                                 Get(response.memories.value[i], "id", None) # response.add.value))
                        => result = [data |-> StoreFallback(inputs, ParseCommaList(inputs.tags))]

\* C8: the precondition guards make no external call.  Without a memory
\* instance search_memories sets "No memory instance provided" and store_memory
\* "Error: No memory instance provided", also when query or content is missing
\* too; with an instance but no query / content they set "No search query
\* provided" / "Error: No content provided"; each returns its empty envelope.
C8_GuardsMakeNoCall ==
    /\ (node = "search" /\ Invoked /\ inputs.memory_instance = None)
          => /\ status = "No memory instance provided" /\ calls = <<>>
             /\ (op = "search_memories" => result = <<>>)
    /\ (node = "search" /\ Invoked /\ inputs.memory_instance # None /\ inputs.search_query = "")
          => /\ status = "No search query provided" /\ calls = <<>>
             /\ (op = "search_memories" => result = <<>>)
    /\ (node = "store" /\ Invoked /\ inputs.memory_instance = None)
          => /\ _storage_status = "Error: No memory instance provided" /\ calls = <<>>
             /\ (op = "store_memory" => result = [data |-> EmptyDict])
    /\ (node = "store" /\ Invoked /\ inputs.memory_instance # None /\ inputs.content = "")
          => /\ _storage_status = "Error: No content provided" /\ calls = <<>>
             /\ (op = "store_memory" => result = [data |-> EmptyDict])

\* a search with neither instance nor query reported the missing instance
C8_Witness ==
    /\ node = "search" /\ op = "search_memories"
    /\ inputs.memory_instance = None /\ inputs.search_query = ""
    /\ status = "No memory instance provided" /\ calls = <<>> /\ result = <<>>

\* the save_context / search_memories / load_memory_variables calls of the last
\* invocation, in order
RetrievalCalls ==
    SelectSeq(Methods(calls), LAMBDA m : m \in {"save_context", "search_memories",
                                                 "load_memory_variables"})

\* build_memory had a memory instance to work with
InstanceAvailable == ~Raises(response.import) /\ ~Raises(response.create)

SearchLimitIsMaxMemories ==
    \A i \in 1..Len(calls) :
        calls[i].method = "search_memories" => calls[i].kwargs.limit = inputs.max_memories

\* C9 as stated: with a message and an instance, save_context is called once
\* and first; with include_context, search_memories (limit = max_memories) and
\* then load_memory_variables are each called once after it, and neither is
\* called without include_context; with an empty message none is called.
C9_CallOrderAsStated ==
    (node = "memory" /\ Invoked) =>
        /\ (inputs.message # "" /\ InstanceAvailable)
              => /\ RetrievalCalls = IF inputs.include_context
                                     THEN <<"save_context", "search_memories",
                                            "load_memory_variables">>
                                     ELSE <<"save_context">>
                 /\ SearchLimitIsMaxMemories
        /\ inputs.message = "" => RetrievalCalls = <<>>

\* C9 amended: with a message and an instance, save_context is called once and
\* first; with include_context, search_memories (limit = max_memories) is
\* called once after it unless save_context raised, and load_memory_variables
\* once after that unless save_context or search_memories raised; neither is
\* called without include_context; with an empty message none is called.
C9_CallOrder ==
    (node = "memory" /\ Invoked) =>
        /\ (inputs.message # "" /\ InstanceAvailable)
              => /\ RetrievalCalls =
                       <<"save_context">>
                       \o (IF inputs.include_context /\ ~Raises(response.save)
                           THEN <<"search_memories">> ELSE <<>>)
                       \o (IF inputs.include_context /\ ~Raises(response.save)
                              /\ ~Raises(response.search)
                           THEN <<"load_memory_variables">> ELSE <<>>)
                 /\ SearchLimitIsMaxMemories
        /\ inputs.message = "" => RetrievalCalls = <<>>

\* a message was processed with context: the three calls were made in order
C9_Witness ==
    /\ node = "memory" /\ op = "build_memory"
    /\ inputs.message = "hi" /\ inputs.include_context
    /\ Methods(calls) = <<"save_context", "search_memories", "load_memory_variables",
                          "_get_timestamp">>
    /\ calls[2].kwargs.limit = 5

\* decimal texts of the counts that occur
CountText == <<"0", "1", "2", "3", "4", "5">>

\* the last invocation of the search component took no guard and no error branch
SearchSucceeded ==
    /\ node = "search" /\ Invoked
    /\ response.search.kind = "return"
    /\ status \notin {"Error searching memories: engine failure",
                      "Error searching memories: cannot unpack non-iterable object"}

\* C10, in one state: after a successful search the cached and returned list
\* has one Data per engine record, in the engine's order; in the semantic
\* branch each carries the score the engine paired with the record, in the
\* keyword branch it is the record as it is; the status, get_result_count and
\* get_formatted_results all report that number.
C10_CountsAgree ==
    SearchSucceeded =>
        LET recs     == response.search.value
            n        == Len(recs)
            semantic == calls[1].method = "search_memories_semantic"
        IN  /\ status = "Found " \o CountText[n + 1] \o " memories"
            /\ Len(_search_results) = n
            /\ \A i \in 1..n :
                  LET d == _search_results[i].data
                  IN  IF semantic
                      THEN /\ DOMAIN d = DOMAIN recs[i].memory.fields \cup {"similarity_score"}
                           /\ d["similarity_score"] = recs[i].similarity
                           /\ \A k \in DOMAIN d \ {"similarity_score"} :
                                 d[k] = recs[i].memory.fields[k]
                      ELSE d = recs[i].fields
            /\ op = "search_memories" => result = _search_results
            /\ op = "get_result_count" => result = [text |-> CountText[n + 1]]
            /\ op = "get_formatted_results" =>
                  IF n = 0
                  THEN result = [text |-> << <<"No memories found for the given query.">> >>]
                  ELSE /\ Len(result.text) = n + 1
                       /\ result.text[1] = <<"Found ", CountText[n + 1], " memories:">>
                       /\ \A i \in 1..n : result.text[i + 1][1] = CountText[i + 1]

\* C10, across invocations: a successful invocation whose engine response is
\* that of the successful invocation before it reports the same count
C10_RerunAgrees ==
    (SearchSucceeded /\ SearchSucceeded' /\ response'.search = response.search)
        => /\ _search_results' = _search_results
           /\ op' = "get_result_count"
                 => result'.text = CountText[Len(_search_results) + 1]
           /\ (op' = "get_formatted_results" /\ _search_results # <<>>)
                 => Len(result'.text) = Len(_search_results) + 1

\* C10: after a search_memories invocation that succeeds the count is
\* consistent everywhere, also in a following get_result_count or
\* get_formatted_results whose re-run search gets the same engine response.
C10_CountConsistent == []C10_CountsAgree /\ [][C10_RerunAgrees]_vars

\* a semantic search returned two scored records and get_result_count said "2"
C10_Witness ==
    /\ SearchSucceeded /\ op = "get_result_count"
    /\ calls[1].method = "search_memories_semantic"
    /\ Len(response.search.value) = 2
    /\ response.search.value[1].memory.kind = "obj"
    /\ _search_results[1].data["similarity_score"] = 90
    /\ result = [text |-> "2"]

StoreGiven ==
    node = "store" /\ inputs.memory_instance # None /\ inputs.content # ""
StoreSupported == engine_attrs \cap {"add_memory", "store_memory"} # {}
OneStoreCall ==
    /\ StoreCalls(calls) = 1
    /\ \A i \in 1..Len(calls) : calls[i].kwargs.content = inputs.content

\* C11 as stated: no output method memoises the store.  On a store component
\* with a memory instance and non-empty content, every invocation of an output
\* method makes exactly one store call (add_memory or store_memory) for the
\* content, so after k invocations the engine has received exactly k store
\* calls; and get_storage_status never returns "Not attempted".
C11_EveryInvocationStores ==
    StoreGiven =>
        /\ store_calls = invocations
        /\ (Invoked => OneStoreCall)
        /\ (op = "get_storage_status" => result # Message("Not attempted"))

\* C11, amended: that holds when the memory instance has add_memory or
\* store_memory.  An instance with neither is never called, however many
\* output methods are invoked; get_storage_status still never returns
\* "Not attempted".
C11_SupportedInstanceStoresEveryTime ==
    StoreGiven =>
        /\ StoreSupported => /\ store_calls = invocations
                             /\ (Invoked => OneStoreCall)
        /\ ~StoreSupported => store_calls = 0 /\ calls = <<>>
        /\ (op = "get_storage_status" => result # Message("Not attempted"))

\* three output methods were invoked in a row, the last get_storage_status,
\* and the engine got its third store call for the content
C11_Witness ==
    /\ StoreGiven /\ StoreSupported
    /\ op = "get_storage_status"
    /\ invocations = 3 /\ store_calls = 3
    /\ OneStoreCall

\* the comma-separated segments of s by position: segment j lies between the
\* (j-1)th and the jth comma
CommaAt(s) == { i \in 1..Len(s) : s[i] = "," }
NthComma(s, j) ==
    CHOOSE i \in CommaAt(s) : Cardinality({ k \in CommaAt(s) : k <= i }) = j
Segments(s) ==
    LET n == Cardinality(CommaAt(s)) + 1
    IN  [ j \in 1..n |->
            SubSeq(s, IF j = 1 THEN 1 ELSE NthComma(s, j - 1) + 1,
                      IF j = n THEN Len(s) ELSE NthComma(s, j) - 1) ]
\* t from its first to its last non-whitespace character
Trimmed(t) ==
    LET ns == { i \in 1..Len(t) : t[i] \notin Whitespace }
    IN  IF ns = {} THEN <<>>
        ELSE SubSeq(t, CHOOSE i \in ns : \A k \in ns : i <= k,
                       CHOOSE i \in ns : \A k \in ns : k <= i)
ExpectedList(s) ==
    SelectSeq([ j \in DOMAIN Segments(s) |-> Trimmed(Segments(s)[j]) ],
              LAMBDA t : t # <<>>)
\* the comma-separated input of the node and the list its engine was passed
ListInput == IF node = "store" THEN inputs.tags ELSE inputs.memory_types
ListPassed == IF node = "store" THEN calls[1].kwargs.tags
              ELSE calls[1].kwargs.memory_types

\* C12: comma-list parsing.  The tag list store_memory passes to the engine, and
\* the memory_types list search_memories passes, is the sequence of the
\* comma-separated segments of the input, each without its leading and
\* trailing whitespace, empty ones dropped, order and duplicates kept; so no
\* element passed is empty or whitespace-padded, and an input that is empty or
\* made of separators only gives the empty list.
C12_CommaListParsed ==
    (node \in {"store", "search"} /\ calls # <<>>) =>
        /\ ListPassed = ExpectedList(ListInput)
        /\ \A i \in 1..Len(ListPassed) :
              /\ ListPassed[i] # <<>>
              /\ ListPassed[i][1] \notin Whitespace
              /\ ListPassed[i][Len(ListPassed[i])] \notin Whitespace
        /\ (\A i \in 1..Len(ListInput) : ListInput[i] \in Whitespace \cup {","})
              => ListPassed = <<>>

\* store_memory was given the tags "\tb," and passed the engine ["b"]
C12_Witness ==
    /\ node = "store" /\ op = "store_memory"
    /\ inputs.tags = <<"\t", "b", ",">>
    /\ calls # <<>>
    /\ calls[1].kwargs.tags = << <<"b">> >>

====
